---- MODULE Spec2Model ----
(***************************************************************************)
(* A model of cr_renderer: the font manager (fonts.py), the text schema    *)
(* (schema.py) and the renderer with its legacy adapter (renderer.py).     *)
(*                                                                         *)
(* Python strings are sequences of one-character strings, so that          *)
(* title-casing, token removal, splitting and entity decoding are computed *)
(* character by character as the library functions compute them.           *)
(***************************************************************************)
EXTENDS Integers, Sequences, FiniteSets, TLC

VARIABLES
    phase,          \* which step of the modelled call sequence comes next
    _fonts,         \* FontManager._fonts: NoneVal or the loaded mapping
    loadResult,     \* how the last FontManager.load ended
    lookupArgs,     \* arguments of the last FontManager.lookup call
    lookupResult,   \* what that call returned or raised
    name,           \* normalize_family: the family name given
    once,           \* normalize_family(name)
    twice,          \* normalize_family(normalize_family(name))
    sizeArgs,       \* _get_scale_size: width, height (rationals), max_size
    scaleSize,      \* what _get_scale_size returned or raised
    example,        \* convert_to_v5: the legacy (v4) example
    converted,      \* the v5 example convert_to_v5 returned
    fields,         \* TextProperty(...): the keyword arguments given
    textProperty,   \* the constructed TextProperty, or the error raised
    doc,            \* _render_to_surface: the example being rendered
    elem,           \* index of the element inside the loop (range(length))
    ctm,            \* the canvas' current transform: the operations applied
    saveStack,      \* the canvas' stack of saved transforms
    saveCount,      \* AutoCanvasRestore: the depth to restore to
    output          \* what _render_to_surface returned or raised

vars == <<phase, _fonts, loadResult, lookupArgs, lookupResult, name, once, twice,
          sizeArgs, scaleSize, example, converted, fields, textProperty,
          doc, elem, ctm, saveStack, saveCount, output>>

fontVars == <<_fonts, loadResult, lookupArgs, lookupResult>>
normVars == <<name, once, twice>>
sizeVars == <<sizeArgs, scaleSize>>
v4Vars == <<example, converted>>
schemaVars == <<fields, textProperty>>
renderVars == <<doc, elem, ctm, saveStack, saveCount, output>>

\* Python's None.
NoneVal == [tag |-> "None"]

\* A call that returns v, and a call that an exception of this kind leaves.
Return(v) == [tag |-> "return", value |-> v]

Raise(kind) == [tag |-> "raise", kind |-> kind]

IsRaised(r) == r.tag = "raise"

IsReturned(r) == r.tag = "return"

(***************************************************************************)
(* str methods                                                             *)
(***************************************************************************)
LowerLetters ==
    <<"a", "b", "c", "d", "e", "f", "g", "h", "i", "j", "k", "l", "m", "n", "o", "p", "q", "r", "s", "t", "u", "v", "w", "x", "y", "z">>

UpperLetters ==
    <<"A", "B", "C", "D", "E", "F", "G", "H", "I", "J", "K", "L", "M", "N", "O", "P", "Q", "R", "S", "T", "U", "V", "W", "X", "Y", "Z">>

IsLower(c) == \E k \in DOMAIN LowerLetters : LowerLetters[k] = c

IsUpper(c) == \E k \in DOMAIN UpperLetters : UpperLetters[k] = c

IsCased(c) == IsLower(c) \/ IsUpper(c)

LetterIndex(c) ==
    CHOOSE k \in DOMAIN LowerLetters : LowerLetters[k] = c \/ UpperLetters[k] = c

ToLower(c) == IF IsUpper(c) THEN LowerLetters[LetterIndex(c)] ELSE c

ToUpper(c) == IF IsLower(c) THEN UpperLetters[LetterIndex(c)] ELSE c

\* str.lower()
str_lower(s) == [k \in DOMAIN s |-> ToLower(s[k])]

\* str.title(): a cased character is upper-cased when the character before it
\* is not cased, and lower-cased when it is.
str_title(s) ==
    [k \in DOMAIN s |->
        IF ~IsCased(s[k]) THEN s[k]
        ELSE IF k > 1 /\ IsCased(s[k - 1]) THEN ToLower(s[k]) ELSE ToUpper(s[k])]

\* str.replace(old, new) for a non-empty old: the occurrences are found left
\* to right, do not overlap, and the replaced text is not scanned again.
RECURSIVE str_replace(_, _, _)
str_replace(s, old, new) ==
    IF Len(s) < Len(old) THEN s
    ELSE IF SubSeq(s, 1, Len(old)) = old
         THEN new \o str_replace(SubSeq(s, Len(old) + 1, Len(s)), old, new)
         ELSE <<Head(s)>> \o str_replace(Tail(s), old, new)

\* str.split(" ")[-1]: what follows the last space (the whole string when
\* there is none, the empty string when the string ends with a space).
LastToken(s) ==
    LET sp == {k \in DOMAIN s : s[k] = " "}
    IN  IF sp = {} THEN s
        ELSE LET m == CHOOSE k \in sp : \A j \in sp : j <= k
             IN  SubSeq(s, m + 1, Len(s))

\* old in s
Contains(s, old) ==
    \E k \in 1..(Len(s) - Len(old) + 1) : SubSeq(s, k, k + Len(old) - 1) = old

(***************************************************************************)
(* fonts.py                                                                *)
(***************************************************************************)
W_thin == <<"t", "h", "i", "n">>
W_light == <<"l", "i", "g", "h", "t">>
W_extralight == <<"e", "x", "t", "r", "a", "l", "i", "g", "h", "t">>
W_regular == <<"r", "e", "g", "u", "l", "a", "r">>
W_medium == <<"m", "e", "d", "i", "u", "m">>
W_semibold == <<"s", "e", "m", "i", "b", "o", "l", "d">>
W_bold == <<"b", "o", "l", "d">>
W_extrabold == <<"e", "x", "t", "r", "a", "b", "o", "l", "d">>
W_black == <<"b", "l", "a", "c", "k">>
S_italic == <<"i", "t", "a", "l", "i", "c">>
S_bolditalic == <<"b", "o", "l", "d", "i", "t", "a", "l", "i", "c">>

FONT_WEIGHTS ==
    {W_thin, W_light, W_extralight, W_regular, W_medium, W_semibold, W_bold,
     W_extrabold, W_black}

FONT_STYLES == {W_regular, W_bold, S_italic, S_bolditalic}

Montserrat == <<"M", "o", "n", "t", "s", "e", "r", "r", "a", "t">>

FONT_MAP ==
    { <<<<"A", "r", "k", "a", "n", "a", " ", "S", "c", "r", "i", "p", "t">>,
        <<"A", "r", "k", "a", "n", "a">>>>,
      <<<<"B", "l", "o", "g", "g", "e", "r">>,
        <<"B", "l", "o", "g", "g", "e", "r", " ", "S", "a", "n", "s">>>>,
      <<<<"D", "e", "l", "i", "u", "s", " ", "S", "w", "a", "s", "h">>,
        <<"D", "e", "l", "i", "u", "s", " ", "S", "w", "a", "s", "h", " ", "C", "a", "p", "s">>>>,
      <<<<"E", "l", "s", "i", "e", " ", "S", "w", "a", "s", "h">>,
        <<"E", "l", "s", "i", "e", " ", "S", "w", "a", "s", "h", " ", "C", "a", "p", "s">>>>,
      <<<<"G", "l", "u", "k", " ", "G", "l", "a", "m", "e", "t", "r", "i", "x">>,
        <<"G", "l", "u", "k", " ", "F", "o", "g", "l", "i", "h", "t", "e", "n", "n", "o", "0", "6">>>>,
      <<<<"G", "l", "u", "k", " ", "Z", "n", "i", "k", "o", "m", "i", "t", "n", "o", "2", "5">>,
        <<"G", "l", "u", "k", " ", "F", "o", "g", "l", "i", "h", "t", "e", "n", "n", "o", "0", "6">>>>,
      <<<<"I", "m", " ", "F", "e", "l", "l">>,
        <<"I", "m", " ", "F", "e", "l", "l", " ", "D", "w", " ", "P", "i", "c", "a", " ", "S", "c">>>>,
      <<<<"M", "e", "d", "i", "e", "v", "a", "l", " ", "S", "h", "a", "r", "p">>,
        <<"M", "e", "d", "i", "e", "v", "a", "l", "s", "h", "a", "r", "p">>>>,
      <<<<"P", "l", "a", "y", "l", "i", "s", "t", " ", "C", "a", "p", "s">>,
        <<"P", "l", "a", "y", "l", "i", "s", "t">>>>,
      <<<<"R", "i", "s", "s", "a", " ", "T", "y", "p", "e", "f", "a", "c", "e">>,
        <<"R", "i", "s", "s", "a", "t", "y", "p", "e", "f", "a", "c", "e">>>>,
      <<<<"S", "e", "l", "i", "m", "a">>,
        <<"S", "e", "l", "i", "m", "a", " ", "S", "c", "r", "i", "p", "t">>>>,
      <<<<"S", "i", "x">>,
        <<"S", "i", "x", " ", "C", "a", "p", "s">>>>,
      <<<<"V", " ", "T", "3", "2", "3">>,
        <<"V", "t", "3", "2", "3">>>>,
      <<<<"D", "i", "f", "f", "e", "r", "e", "n", "t", " ", "S", "u", "m", "m", "e", "r">>,
        <<"M", "o", "n", "t", "s", "e", "r", "r", "a", "t">>>>,
      <<<<"D", "u", "k", "o", "m", "d", "e", "s", "i", "g", "n", " ", "C", "o", "n", "s", "t", "a", "n", "t", "i", "n", "e">>,
        <<"M", "o", "n", "t", "s", "e", "r", "r", "a", "t">>>>,
      <<<<"S", "u", "n", "d", "a", "y">>,
        <<"M", "o", "n", "t", "s", "e", "r", "r", "a", "t">>>> }

\* The tokens normalize_family removes, in the order it removes them.
T_Bold == <<" ", "B", "o", "l", "d">>
T_Regular == <<" ", "R", "e", "g", "u", "l", "a", "r">>
T_Light == <<" ", "L", "i", "g", "h", "t">>
T_Italic == <<" ", "I", "t", "a", "l", "i", "c">>
T_Medium == <<" ", "M", "e", "d", "i", "u", "m">>

\* FONT_MAP.get(name, name), with a table in which an entry's value ("Selima")
\* is itself a key.
FontMapGetChained(n) ==
    LET table == (FONT_MAP \ {e \in FONT_MAP : e[1] = <<"S", "i", "x">>})
                     \cup {<<<<"S", "i", "x">>, <<"S", "e", "l", "i", "m", "a">>>>}
    IN  IF \E e \in table : e[1] = n
        THEN (CHOOSE e \in table : e[1] = n)[2]
        ELSE n

\* FONT_MAP.get(name, name)
FontMapGet(n) ==
    IF \E e \in FONT_MAP : e[1] = n
    THEN (CHOOSE e \in FONT_MAP : e[1] = n)[2]
    ELSE n

\* The name after the replacements of normalize_family, before FONT_MAP.
StripTokens(nm) ==
    LET n0 == str_title(str_replace(nm, <<"_">>, <<" ">>))
        n1 == str_replace(n0, T_Bold, <<>>)
        n2 == str_replace(n1, T_Regular, <<>>)
        n3 == str_replace(n2, T_Light, <<>>)
        n4 == str_replace(n3, T_Italic, <<>>)
    IN  str_replace(n4, T_Medium, <<>>)

normalize_family(nm) == FontMapGet(StripTokens(nm))

get_font_weight(nm, default) ==
    LET key == LastToken(str_lower(str_replace(nm, <<"_">>, <<" ">>)))
    IN  IF key \in FONT_WEIGHTS THEN key ELSE default

\* get_font_style that keeps the caller's style whatever the name ends with.
get_font_style_NoOverride(nm, default) == default

get_font_style(nm, default) ==
    LET key == LastToken(str_lower(str_replace(nm, <<"_">>, <<" ">>)))
    IN  IF key \in FONT_STYLES THEN key ELSE default

\* self._fonts is a dict, which keeps the order of insertion: a sequence of
\* [key, faces] entries with distinct keys.
Dict(items) == [tag |-> "dict", items |-> items]

HasKey(fonts, k) == \E j \in DOMAIN fonts.items : fonts.items[j].key = k

GetItem(fonts, k) ==
    fonts.items[CHOOSE j \in DOMAIN fonts.items : fonts.items[j].key = k].faces

\* A face's field that is absent from its dict.
Missing == <<"?">>

\* font.get(field, "regular")
FaceGet(value) == IF value = Missing THEN W_regular ELSE value

\* normalize_family("Montserrat"), the key of the second pass of the loop.
DefaultKey == normalize_family(Montserrat)

\* The family loop of lookup in which "Montserrat" is tried before the
\* requested family.
SelectFamilyDefaultFirst(fonts, font_family) ==
    IF HasKey(fonts, DefaultKey)
    THEN Return(GetItem(fonts, DefaultKey))
    ELSE IF HasKey(fonts, normalize_family(font_family))
    THEN LET family == GetItem(fonts, normalize_family(font_family))
         IN  IF family = <<>> THEN Raise("IndexError") ELSE Return(family)
    ELSE Return(<<>>)

\* The loop over [font_family, "Montserrat"]: the first of the two names that
\* is a key gives the family; the warning of the second pass reads family[0].
\* Neither being a key leaves family = [].
SelectFamily(fonts, font_family) ==
    IF HasKey(fonts, normalize_family(font_family))
    THEN Return(GetItem(fonts, normalize_family(font_family)))
    ELSE IF HasKey(fonts, DefaultKey)
    THEN LET family == GetItem(fonts, DefaultKey)
         IN  IF family = <<>> THEN Raise("IndexError") ELSE Return(family)
    ELSE Return(<<>>)

\* if not family: family = next(iter(self._fonts.values())), and the warning
\* that reads family[0].
FirstFamily(fonts) ==
    IF fonts.items = <<>> THEN Raise("StopIteration")
    ELSE IF fonts.items[1].faces = <<>> THEN Raise("IndexError")
    ELSE Return(fonts.items[1].faces)

\* The face search of lookup without the except StopIteration clause.
FindFaceNoFallback(family, font_weight, font_style) ==
    LET match == {p \in DOMAIN family :
                    /\ FaceGet(family[p].fontWeight) = font_weight
                    /\ FaceGet(family[p].fontStyle) = font_style}
    IN  IF match # {}
        THEN Return(family[CHOOSE p \in match : \A q \in match : p <= q].bytes)
        ELSE Raise("StopIteration")

\* next(font for font in family if ...) and its fallback family[0]; the bytes
\* of the face found. The family is not empty here.
FindFace(family, font_weight, font_style) ==
    LET match == {p \in DOMAIN family :
                    /\ FaceGet(family[p].fontWeight) = font_weight
                    /\ FaceGet(family[p].fontStyle) = font_style}
    IN  IF match # {}
        THEN Return(family[CHOOSE p \in match : \A q \in match : p <= q].bytes)
        ELSE Return(family[1].bytes)

\* FontManager.lookup: the bytes returned, or the exception raised.
lookup(fonts, font_family, font_weight, font_style) ==
    IF fonts = NoneVal THEN Raise("AssertionError")
    ELSE IF font_weight \notin FONT_WEIGHTS THEN Raise("AssertionError")
    ELSE IF font_style \notin FONT_STYLES THEN Raise("AssertionError")
    ELSE LET found == SelectFamily(fonts, font_family)
             family == IF IsReturned(found) /\ found.value = <<>>
                       THEN FirstFamily(fonts) ELSE found
         IN  IF IsRaised(family) THEN family
             ELSE FindFace(family.value,
                           get_font_weight(font_family, font_weight),
                           get_font_style(font_family, font_style))

\* What load reads: no file at the path, bytes that do not unpickle, or the
\* pickle of an object.
AbsentBlob == [tag |-> "absent"]

CorruptBlob == [tag |-> "corrupt"]

Pickle(obj) == [tag |-> "pickle", object |-> obj]

\* FontManager.load: the new value of self._fonts and how the call ended.
\* fsspec.open or pickle.load raising leaves self._fonts as it was; the
\* unpickled object is assigned before the assertion looks at it.
load(fonts, blob) ==
    IF blob = AbsentBlob
    THEN [fonts |-> fonts, result |-> Raise("FileNotFoundError")]
    ELSE IF blob = CorruptBlob
    THEN [fonts |-> fonts, result |-> Raise("UnpicklingError")]
    ELSE IF blob.object = NoneVal
    THEN [fonts |-> blob.object, result |-> Raise("AssertionError")]
    ELSE [fonts |-> blob.object, result |-> Return(NoneVal)]

(***************************************************************************)
(* The font stores and the lookups the font manager is checked on.         *)
(***************************************************************************)
\* The longest face list of a family.
MaxFaces == 2

Acme == <<"A", "c", "m", "e">>
Zeta == <<"Z", "e", "t", "a">>

StoreKeys == {Acme, Montserrat, Zeta}

\* The (fontWeight, fontStyle) a face may carry; Missing: the field is absent.
FacePairs ==
    {<<Missing, Missing>>, <<W_bold, W_regular>>, <<W_bold, W_bold>>}

SeqsUpTo(S, n) == UNION {[1..k -> S] : k \in 0..n}

\* The keys of a store in their order of insertion: no family, one, or two.
KeyOrders ==
    {<<>>} \cup {<<a>> : a \in StoreKeys}
           \cup {<<ab[1], ab[2]>> : ab \in {x \in StoreKeys \X StoreKeys : x[1] # x[2]}}

FaceLists == SeqsUpTo(FacePairs, MaxFaces) \ {<<>>}

\* A store with the keys ks in this order; every family lists the faces fl,
\* and the bytes of a face tell its family and its place in the list.
Store(ks, fl) ==
    Dict([j \in DOMAIN ks |->
            [key |-> ks[j],
             faces |-> [p \in DOMAIN fl |->
                          [fontWeight |-> fl[p][1], fontStyle |-> fl[p][2],
                           bytes |-> <<ks[j], p>>]]]])

\* Every family of a store lists at least one face (lookup reads family[0]);
\* the store itself may be empty.
Stores == {Store(ks, fl) : ks \in KeyOrders, fl \in FaceLists}

Blobs == {AbsentBlob, CorruptBlob, Pickle(NoneVal)} \cup {Pickle(st) : st \in Stores}

ReqNames ==
    {Acme, <<"a", "c", "m", "e", "_", "b", "o", "l", "d">>, <<"Z", "e", "t", "a", " ", "B", "o", "l", "d">>, <<"Z", "e", "t", "a", " ", "I", "t", "a", "l", "i", "c">>, <<"S", "u", "n", "d", "a", "y">>, <<"N", "o", "p", "e">>}

Bogus == <<"b", "o", "g", "u", "s">>

\* Every recognized weight and style, and one of each that is not.
ReqWeightStyles ==
    (FONT_WEIGHTS \X FONT_STYLES) \cup {<<Bogus, W_regular>>, <<W_regular, Bogus>>}

(***************************************************************************)
(* FontManager: construction (which loads) and lookups.                    *)
(***************************************************************************)
FontInit ==
    /\ phase = "new"
    /\ _fonts = NoneVal
    /\ loadResult = NoneVal
    /\ lookupArgs = NoneVal
    /\ lookupResult = NoneVal
    /\ name = NoneVal /\ once = NoneVal /\ twice = NoneVal
    /\ sizeArgs = NoneVal /\ scaleSize = NoneVal
    /\ example = NoneVal /\ converted = NoneVal
    /\ fields = NoneVal /\ textProperty = NoneVal
    /\ doc = NoneVal /\ elem = 0 /\ ctm = <<>> /\ saveStack = <<>>
    /\ saveCount = 0 /\ output = NoneVal

\* FontManager(input_path): __init__ sets _fonts = None and calls load; an
\* exception of load leaves no manager.
Construct ==
    /\ phase = "new"
    /\ \E blob \in Blobs :
         LET r == load(NoneVal, blob)
         IN  /\ _fonts' = r.fonts
             /\ loadResult' = r.result
             /\ phase' = IF IsRaised(r.result) THEN "failed" ELSE "ready"
    /\ UNCHANGED <<lookupArgs, lookupResult>>
    /\ UNCHANGED <<normVars, sizeVars, v4Vars, schemaVars, renderVars>>

\* A call of lookup on the manager; LookupDone is its return to the caller,
\* who may call again.
Lookup ==
    /\ phase = "ready"
    /\ \E f \in ReqNames, ws \in ReqWeightStyles :
         /\ lookupArgs' =
                [font_family |-> f, font_weight |-> ws[1], font_style |-> ws[2]]
         /\ lookupResult' = lookup(_fonts, f, ws[1], ws[2])
    /\ phase' = "lookup"
    /\ UNCHANGED <<_fonts, loadResult>>
    /\ UNCHANGED <<normVars, sizeVars, v4Vars, schemaVars, renderVars>>

LookupDone ==
    /\ phase = "lookup"
    /\ phase' = "ready"
    /\ lookupArgs' = NoneVal
    /\ lookupResult' = NoneVal
    /\ UNCHANGED <<_fonts, loadResult>>
    /\ UNCHANGED <<normVars, sizeVars, v4Vars, schemaVars, renderVars>>

FontNext == Construct \/ Lookup \/ LookupDone

FontSpec == FontInit /\ [][FontNext]_vars

(***************************************************************************)
(* Claims about FontManager (checked under FontSpec).                      *)
(***************************************************************************)
\* A lookup has just run on a store with at least one family, with a
\* recognized weight and style.
LookupOnStore ==
    /\ phase = "lookup"
    /\ Len(_fonts.items) >= 1
    /\ lookupArgs.font_weight \in FONT_WEIGHTS
    /\ lookupArgs.font_style \in FONT_STYLES

\* The key of the family the fallback order of the claims designates.
DesignatedKey ==
    LET n == normalize_family(lookupArgs.font_family)
    IN  IF HasKey(_fonts, n) THEN n
        ELSE IF HasKey(_fonts, Montserrat) THEN Montserrat
        ELSE _fonts.items[1].key

\* The first face of faces with this weight and style, else the first face.
FirstWith(faces, w, s) ==
    LET match == {p \in DOMAIN faces :
                    FaceGet(faces[p].fontWeight) = w /\ FaceGet(faces[p].fontStyle) = s}
    IN  IF match = {} THEN 1 ELSE CHOOSE p \in match : \A q \in match : p <= q

BoldSuffixDefaults ==
    /\ LookupOnStore
    /\ LastToken(str_lower(lookupArgs.font_family)) = W_bold
    /\ lookupArgs.font_weight = W_regular
    /\ lookupArgs.font_style = W_regular

\* C2 as claimed (suffix override): in that case lookup returns the bytes of
\* a bold-weight face of the resolved family whenever the family has one,
\* whatever the styles of its faces.
C2_SuffixOverride_Claimed ==
    BoldSuffixDefaults =>
        LET faces == GetItem(_fonts, DesignatedKey)
            bold == {p \in DOMAIN faces : FaceGet(faces[p].fontWeight) = W_bold}
        IN  bold # {} =>
                \E p \in bold : lookupResult = Return(faces[p].bytes)

\* C2 as amended: the token "bold" is a weight and a style, so the effective
\* pair is (bold, bold); lookup returns the first face of the resolved family
\* whose weight and style are both "bold", and the family's first face when
\* it has none (a bold-weight face of another style is not selected).
C2_SuffixOverride ==
    BoldSuffixDefaults =>
        LET faces == GetItem(_fonts, DesignatedKey)
        IN  lookupResult = Return(faces[FirstWith(faces, W_bold, W_bold)].bytes)

\* The bold/bold face is found behind a bold-weight face of regular style.
C2_Witness ==
    /\ BoldSuffixDefaults
    /\ LET faces == GetItem(_fonts, DesignatedKey)
       IN  /\ Len(faces) >= 2
           /\ faces[1].fontWeight = W_bold /\ faces[1].fontStyle = W_regular
           /\ faces[2].fontWeight = W_bold /\ faces[2].fontStyle = W_bold
           /\ lookupResult = Return(faces[2].bytes)

\* C7 as claimed: load fails on a blob that decodes to an empty mapping, so
\* a store on which load succeeded has at least one family and a later
\* lookup reaches a face.
C7_LoadRejectsEmptyStore ==
    /\ IsReturned(loadResult) => (_fonts # NoneVal /\ Len(_fonts.items) >= 1)
    /\ (/\ phase = "lookup"
        /\ lookupArgs.font_weight \in FONT_WEIGHTS
        /\ lookupArgs.font_style \in FONT_STYLES) => IsReturned(lookupResult)

MaxParts == 3

NameParts ==
    {<<"A">>, <<" ", "B", "o">>, <<" ", "B", "o", "l", "d">>, <<"l", "d">>, <<" ", "L", "i", "g", "h", "t">>, <<"_", "m", "e", "d", "i", "u", "m">>, <<"s", "i", "x">>, <<"x">>}

RECURSIVE Concat(_)
Concat(parts) == IF parts = <<>> THEN <<>> ELSE Head(parts) \o Concat(Tail(parts))

NameInputs == {Concat(parts) : parts \in SeqsUpTo(NameParts, MaxParts)}

NormInit ==
    /\ phase = "name"
    /\ name \in NameInputs
    /\ once = NoneVal /\ twice = NoneVal
    /\ _fonts = NoneVal /\ loadResult = NoneVal
    /\ lookupArgs = NoneVal /\ lookupResult = NoneVal
    /\ sizeArgs = NoneVal /\ scaleSize = NoneVal
    /\ example = NoneVal /\ converted = NoneVal
    /\ fields = NoneVal /\ textProperty = NoneVal
    /\ doc = NoneVal /\ elem = 0 /\ ctm = <<>> /\ saveStack = <<>>
    /\ saveCount = 0 /\ output = NoneVal

NormalizeOnce ==
    /\ phase = "name"
    /\ once' = normalize_family(name)
    /\ phase' = "once"
    /\ UNCHANGED <<name, twice>>
    /\ UNCHANGED <<fontVars, sizeVars, v4Vars, schemaVars, renderVars>>

NormalizeTwice ==
    /\ phase = "once"
    /\ twice' = normalize_family(once)
    /\ phase' = "twice"
    /\ UNCHANGED <<name, once>>
    /\ UNCHANGED <<fontVars, sizeVars, v4Vars, schemaVars, renderVars>>

NormNext == NormalizeOnce \/ NormalizeTwice

NormSpec == NormInit /\ [][NormNext]_vars

\* C3 as claimed (normalization idempotence): normalizing a normalized name
\* changes nothing, for every family name.
C3_Idempotence_Claimed == phase = "twice" => twice = once

\* A name that title-casing leaves as it is and that holds none of the five
\* tokens normalize_family removes.
Settled(nm) ==
    /\ str_title(nm) = nm
    /\ \A tok \in {T_Bold, T_Regular, T_Light, T_Italic, T_Medium} :
         ~Contains(nm, tok)

\* C3 as amended: normalizing a normalized name changes nothing whenever the
\* normalized name is in title case and holds none of the five tokens; that
\* covers the names the exception table maps.
C3_Idempotence == (phase = "twice" /\ Settled(once)) => twice = once

\* A name with a token to remove that the exception table then maps.
C3_Witness ==
    /\ phase = "twice"
    /\ Contains(name, T_Bold)
    /\ once = <<"S", "i", "x", " ", "C", "a", "p", "s">>
    /\ Settled(once)
    /\ twice = once

(***************************************************************************)
(* renderer.py: _get_scale_size. The canvas size is a float: here an exact *)
(* fraction [n, d] with d > 0, and max_size an int or None.                *)
(***************************************************************************)
Frac(n, d) == [n |-> n, d |-> d]

One == Frac(1, 1)

FracEq(a, b) == a.n * b.d = b.n * a.d

FracLess(a, b) == a.n * b.d < b.n * a.d

\* max(a, b) and min(a, b): the first argument unless the second is larger
\* (smaller).
FracMax(a, b) == IF FracLess(a, b) THEN b ELSE a

FracMin(a, b) == IF FracLess(b, a) THEN b ELSE a

FracMul(a, b) == Frac(a.n * b.n, a.d * b.d)

\* a / b for b > 0
FracDiv(a, b) == Frac(a.n * b.d, a.d * b.n)

\* round(x): the nearest integer, and the even one of the two when x is
\* halfway between them.
Round(x) ==
    LET q == x.n \div x.d
        r == x.n % x.d
    IN  IF 2 * r < x.d THEN q
        ELSE IF 2 * r > x.d THEN q + 1
        ELSE IF q % 2 = 0 THEN q ELSE q + 1

\* s = 1.0 if max_size is None else min(1.0, max_size / max(width, height))
FitScale(width, height, max_size) ==
    IF max_size = NoneVal THEN One
    ELSE FracMin(One, FracDiv(Frac(max_size.int, 1), FracMax(width, height)))

\* _get_scale_size without the two "Ensure the size is not zero" branches.
_get_scale_size_NoGuard(width, height, max_size) ==
    IF max_size # NoneVal /\ FracMax(width, height).n = 0
    THEN Raise("ZeroDivisionError")
    ELSE LET s == FitScale(width, height, max_size)
             size == <<Round(FracMul(s, width)), Round(FracMul(s, height))>>
         IN  IF size[1] > 0 /\ size[2] > 0
             THEN Return([scale |-> <<s, s>>, size |-> size])
             ELSE Raise("AssertionError")

\* _get_scale_size: ((sx, sy), size), or the exception raised.
_get_scale_size(width, height, max_size) ==
    IF max_size # NoneVal /\ FracMax(width, height).n = 0
    THEN Raise("ZeroDivisionError")
    ELSE LET s == FitScale(width, height, max_size)
             zeroX == Round(FracMul(width, s)) <= 0
             zeroY == Round(FracMul(height, s)) <= 0
         IN  IF (zeroX /\ width.n = 0) \/ (zeroY /\ height.n = 0)
             THEN Raise("ZeroDivisionError")
             ELSE LET sx == IF zeroX THEN FracDiv(One, width) ELSE s
                      sy == IF zeroY THEN FracDiv(One, height) ELSE s
                      size == <<Round(FracMul(sx, width)), Round(FracMul(sy, height))>>
                  IN  IF size[1] > 0 /\ size[2] > 0
                      THEN Return([scale |-> <<sx, sy>>, size |-> size])
                      ELSE Raise("AssertionError")

\* The largest numerator and denominator of a canvas dimension, and the
\* largest max_size.
MaxNum == 5
MaxDen == 2
MaxSize == 2

Dimensions == {Frac(n, d) : n \in 0..MaxNum, d \in 1..MaxDen}

IntVal(i) == [tag |-> "int", int |-> i]

MaxSizes == {NoneVal} \cup {IntVal(i) : i \in 1..MaxSize}

SizeInit ==
    /\ phase = "size"
    /\ sizeArgs \in [width : Dimensions, height : Dimensions, max_size : MaxSizes]
    /\ scaleSize = NoneVal
    /\ _fonts = NoneVal /\ loadResult = NoneVal
    /\ lookupArgs = NoneVal /\ lookupResult = NoneVal
    /\ name = NoneVal /\ once = NoneVal /\ twice = NoneVal
    /\ example = NoneVal /\ converted = NoneVal
    /\ fields = NoneVal /\ textProperty = NoneVal
    /\ doc = NoneVal /\ elem = 0 /\ ctm = <<>> /\ saveStack = <<>>
    /\ saveCount = 0 /\ output = NoneVal

GetScaleSize ==
    /\ phase = "size"
    /\ scaleSize' =
           _get_scale_size(sizeArgs.width, sizeArgs.height, sizeArgs.max_size)
    /\ phase' = "sized"
    /\ UNCHANGED sizeArgs
    /\ UNCHANGED <<fontVars, normVars, v4Vars, schemaVars, renderVars>>

SizeNext == GetScaleSize

SizeSpec == SizeInit /\ [][SizeNext]_vars

\* _get_scale_size has run on a canvas with width > 0, height > 0 and a
\* max_size > 0.
SizedPositive ==
    /\ phase = "sized"
    /\ sizeArgs.width.n > 0
    /\ sizeArgs.height.n > 0
    /\ sizeArgs.max_size # NoneVal
    /\ sizeArgs.max_size.int > 0

\* What C4 says of one axis: with s = min(1, max_size / max(width, height)),
\* the axis keeps scale s when round(dimension * s) is positive, and gets
\* scale 1 / dimension and pixel size 1 when it is 0.
AxisAsClaimed(dimension, scale, pixels) ==
    LET s == FracMin(One, FracDiv(Frac(sizeArgs.max_size.int, 1),
                                  FracMax(sizeArgs.width, sizeArgs.height)))
    IN  IF Round(FracMul(dimension, s)) > 0
        THEN FracEq(scale, s)
        ELSE FracEq(scale, FracDiv(One, dimension)) /\ pixels = 1

\* C4 (fit scale and degenerate-size guard): for width > 0, height > 0 and
\* maxSize > 0, _get_scale_size returns (its assertion is never hit) a pixel
\* size of at least 1 on both axes, and each axis is as AxisAsClaimed says.
C4_ScaleSizeGuard ==
    SizedPositive =>
        /\ IsReturned(scaleSize)
        /\ scaleSize.value.size[1] >= 1
        /\ scaleSize.value.size[2] >= 1
        /\ AxisAsClaimed(sizeArgs.width, scaleSize.value.scale[1],
                         scaleSize.value.size[1])
        /\ AxisAsClaimed(sizeArgs.height, scaleSize.value.scale[2],
                         scaleSize.value.size[2])

\* A canvas that is shrunk (s < 1) and whose height then rounds to 0: the
\* guard gives the two axes different scales.
C4_Witness ==
    /\ SizedPositive
    /\ IsReturned(scaleSize)
    /\ FracLess(scaleSize.value.scale[1], One)
    /\ ~FracEq(scaleSize.value.scale[1], scaleSize.value.scale[2])
    /\ scaleSize.value.size = <<2, 1>>

(***************************************************************************)
(* renderer.py: CrelloV4Renderer.convert_to_v5, the arrays built from the  *)
(* text of each element. An example is [length, text, color, opacity].     *)
(***************************************************************************)
NL == "\n"

\* re.sub("\n+", "\n", x): every run of newlines becomes one newline.
RECURSIVE CollapseNewlines(_)
CollapseNewlines(x) ==
    IF Len(x) <= 1 THEN x
    ELSE IF x[1] = NL /\ x[2] = NL THEN CollapseNewlines(Tail(x))
    ELSE <<Head(x)>> \o CollapseNewlines(Tail(x))

\* "rgba({},{},{},{})".format(*color, float(opacity))
Rgba(color, opacity) == <<"rgba", color[1], color[2], color[3], opacity>>

\* [rgba] * len(text[i])
TextColor(t, color, opacity) == [k \in DOMAIN t |-> Rgba(color, opacity)]

\* A running count that leaves out the character at the position itself.
TextLineBefore(t) ==
    [k \in DOMAIN t |-> Cardinality({j \in 1..(k - 1) : t[j] = NL})]

\* list(accumulate([int(c == "\n") for c in list(text[i])])): at each
\* position, the newlines up to and including it.
TextLine(t) == [k \in DOMAIN t |-> Cardinality({j \in 1..k : t[j] = NL})]

\* [False] * n
AllFalse(n) == [k \in 1..n |-> FALSE]

convert_to_v5(ex) ==
    LET length == ex.length
        text == [i \in DOMAIN ex.text |-> CollapseNewlines(ex.text[i])]
    IN  [length |-> length,
         opacity |-> ex.opacity,
         text |-> text,
         font_bold |-> [i \in 1..length |-> AllFalse(Len(ex.text[i]))],
         font_italic |-> [i \in 1..length |-> AllFalse(Len(ex.text[i]))],
         text_color |-> [i \in 1..length |->
                            TextColor(text[i], ex.color[i], ex.opacity[i])],
         text_line |-> [i \in 1..length |-> TextLine(text[i])]]

\* The most elements of a legacy example and the longest text enumerated.
MaxElements == 2
MaxTextLen == 3

AbCd == <<"a", "b", "\n", "c", "d">>

\* Every text of "a" and newlines up to MaxTextLen characters, and "ab\ncd".
LegacyTexts == SeqsUpTo({"a", NL}, MaxTextLen) \cup {AbCd}

\* A well-formed legacy example: every array has length entries.
LegacyExample(texts) ==
    [length |-> Len(texts),
     text |-> texts,
     color |-> [i \in DOMAIN texts |-> <<i, 0, 0>>],
     opacity |-> [i \in DOMAIN texts |-> 1]]

V4Init ==
    /\ phase = "v4"
    /\ example \in {LegacyExample(texts) : texts \in SeqsUpTo(LegacyTexts, MaxElements)}
    /\ converted = NoneVal
    /\ _fonts = NoneVal /\ loadResult = NoneVal
    /\ lookupArgs = NoneVal /\ lookupResult = NoneVal
    /\ name = NoneVal /\ once = NoneVal /\ twice = NoneVal
    /\ sizeArgs = NoneVal /\ scaleSize = NoneVal
    /\ fields = NoneVal /\ textProperty = NoneVal
    /\ doc = NoneVal /\ elem = 0 /\ ctm = <<>> /\ saveStack = <<>>
    /\ saveCount = 0 /\ output = NoneVal

ConvertToV5 ==
    /\ phase = "v4"
    /\ converted' = convert_to_v5(example)
    /\ phase' = "v5"
    /\ UNCHANGED example
    /\ UNCHANGED <<fontVars, normVars, sizeVars, schemaVars, renderVars>>

V4Next == ConvertToV5

V4Spec == V4Init /\ [][V4Next]_vars

\* The positions of t that hold a visible (non-newline) character.
Visible(t) == {k \in DOMAIN t : t[k] # NL}

\* The k-th smallest member of a set of positions.
Nth(P, k) == CHOOSE p \in P : Cardinality({q \in P : q < p}) = k - 1

\* t is x with its runs of newlines collapsed: no newline follows a newline
\* in t, only repeated newlines are gone, and the other characters are those
\* of x in their order.
IsCollapsed(t, x) ==
    /\ \A k \in 1..(Len(t) - 1) : ~(t[k] = NL /\ t[k + 1] = NL)
    /\ Len(t) = Len(x) - Cardinality({k \in 2..Len(x) : x[k] = NL /\ x[k - 1] = NL})
    /\ SelectSeq(t, LAMBDA c : c # NL) = SelectSeq(x, LAMBDA c : c # NL)

\* C5 as claimed (legacy adapter text_line): text_line[i] has one entry per
\* visible character of the collapsed text, the number of newlines before
\* that character; "ab\ncd" yields [0,0,1,1].
C5_TextLine_Claimed ==
    phase = "v5" =>
        \A i \in 1..converted.length :
            LET t == converted.text[i]
                line == converted.text_line[i]
            IN  /\ IsCollapsed(t, example.text[i])
                /\ Len(line) = Cardinality(Visible(t))
                /\ \A k \in DOMAIN line :
                     line[k] = Cardinality({j \in 1..Nth(Visible(t), k) : t[j] = NL})
                /\ example.text[i] = AbCd => line = <<0, 0, 1, 1>>

\* C5 as amended: text_line[i] has one entry per character of the collapsed
\* text, newlines included, the number of newlines up to and including that
\* position; "ab\ncd" (5 characters) yields [0,0,1,1,1].
C5_TextLine ==
    phase = "v5" =>
        \A i \in 1..converted.length :
            LET t == converted.text[i]
                line == converted.text_line[i]
            IN  /\ IsCollapsed(t, example.text[i])
                /\ Len(line) = Len(t)
                /\ \A k \in DOMAIN line :
                     line[k] = Len(SelectSeq(SubSeq(t, 1, k), LAMBDA c : c = NL))
                /\ example.text[i] = AbCd => line = <<0, 0, 1, 1, 1>>

\* "ab\ncd" is converted next to a text whose newlines are collapsed.
C5_Witness ==
    /\ phase = "v5"
    /\ converted.length = 2
    /\ example.text[1] = AbCd
    /\ converted.text_line[1] = <<0, 0, 1, 1, 1>>
    /\ example.text[2] = <<"a", NL, NL>>
    /\ converted.text_line[2] = <<0, 1>>

\* C10 as claimed (per-character array alignment): text_color[i],
\* font_bold[i] and font_italic[i] each have one entry per character of the
\* output text[i], also for texts with consecutive newlines.
C10_ArraysAligned ==
    phase = "v5" =>
        \A i \in 1..converted.length :
            /\ Len(converted.text_color[i]) = Len(converted.text[i])
            /\ Len(converted.font_bold[i]) = Len(converted.text[i])
            /\ Len(converted.font_italic[i]) = Len(converted.text[i])

(***************************************************************************)
(* schema.py: TextProperty, its text validator and its model validator.    *)
(***************************************************************************)
\* The named character references html.unescape knows, among the names the
\* texts below can spell: with and without the closing semicolon.
Html5 ==
    { <<<<"a", "m", "p", ";">>, <<"&">>>>, <<<<"a", "m", "p">>, <<"&">>>>, <<<<"l", "t", ";">>, <<"<">>>>, <<<<"l", "t">>, <<"<">>>>,
      <<<<"g", "t", ";">>, <<">">>>>, <<<<"g", "t">>, <<">">>>> }

InHtml5(s) == \E e \in Html5 : e[1] = s

Html5Get(s) == (CHOOSE e \in Html5 : e[1] = s)[2]

\* [^\t\n\f <&#;]: a character of a reference's name.
IsNameChar(c) == c \notin {"\t", NL, "\f", " ", "<", "&", "#", ";"}

\* The length of the name at the start of s: {1,32}, as many as there are.
RECURSIVE NameLength(_, _)
NameLength(s, n) ==
    IF n < 32 /\ n < Len(s) /\ IsNameChar(s[n + 1]) THEN NameLength(s, n + 1)
    ELSE n

\* html._replace_charref for a named reference s (the text after "&"): the
\* reference itself, else its longest known prefix of two characters or more
\* followed by the rest, else the text as it was.
ReplaceCharref(s) ==
    IF InHtml5(s) THEN Html5Get(s)
    ELSE LET known == {x \in 2..(Len(s) - 1) : InHtml5(SubSeq(s, 1, x))}
         IN  IF known # {}
             THEN LET x == CHOOSE y \in known : \A z \in known : z <= y
                  IN  Html5Get(SubSeq(s, 1, x)) \o SubSeq(s, x + 1, Len(s))
             ELSE <<"&">> \o s

\* html.unescape for texts without numeric references ("#"): every match of
\* &name;? is replaced, left to right.
RECURSIVE unescape(_)
unescape(value) ==
    IF value = <<>> THEN <<>>
    ELSE IF Head(value) # "&" THEN <<Head(value)>> \o unescape(Tail(value))
    ELSE LET rest == Tail(value)
             n == NameLength(rest, 0)
             m == IF n < Len(rest) /\ rest[n + 1] = ";" THEN n + 1 ELSE n
         IN  IF n = 0 THEN <<"&">> \o unescape(rest)
             ELSE ReplaceCharref(SubSeq(rest, 1, m))
                      \o unescape(SubSeq(rest, m + 1, Len(rest)))

ListVal(items) == [tag |-> "list", items |-> items]

TextMapItem(startIndex, endIndex, value, type) ==
    [startIndex |-> startIndex, endIndex |-> endIndex, value |-> value, type |-> type]

\* check_linemap with endIndex = len(self.text).
check_linemap_OffByOne(self) ==
    IF self.lineMap = NoneVal
    THEN [self EXCEPT !.lineMap =
              ListVal(<<TextMapItem(0, Len(self.text), "line", "line")>>)]
    ELSE self

\* TextProperty.check_linemap (model validator, mode "after")
check_linemap(self) ==
    IF self.lineMap = NoneVal
    THEN [self EXCEPT !.lineMap =
              ListVal(<<TextMapItem(0, Len(self.text) - 1, "line", "line")>>)]
    ELSE self

TextAligns == {"left", "right", "center", "justify"}

\* TextProperty(**kw): the fields are validated (text through unescape), any
\* failure raises ValidationError, and check_linemap runs on the rest.
TextProperty(kw) ==
    IF kw.fontSize <= 0 \/ kw.lineHeight <= 0 \/ kw.textAlign \notin TextAligns
    THEN Raise("ValidationError")
    ELSE Return(check_linemap([text |-> unescape(kw.text),
                               fontSize |-> kw.fontSize,
                               lineHeight |-> kw.lineHeight,
                               textAlign |-> kw.textAlign,
                               lineMap |-> kw.lineMap]))

\* The most parts of a raw text.
MaxTextParts == 3

TextParts == {<<"a">>, <<"&", "a", "m", "p", ";">>, <<"&", "l", "t">>, <<"&">>, <<";">>, <<"a", "m", "p", ";">>}

RawTexts == {Concat(parts) : parts \in SeqsUpTo(TextParts, MaxTextParts)}

LineMaps ==
    {NoneVal, ListVal(<<>>), ListVal(<<TextMapItem(0, 0, "line", "line")>>)}

SchemaInit ==
    /\ phase = "fields"
    /\ fields \in [text : RawTexts, fontSize : {0, 12}, lineHeight : {0, 1},
                   textAlign : {"left", "middle"}, lineMap : LineMaps]
    /\ textProperty = NoneVal
    /\ _fonts = NoneVal /\ loadResult = NoneVal
    /\ lookupArgs = NoneVal /\ lookupResult = NoneVal
    /\ name = NoneVal /\ once = NoneVal /\ twice = NoneVal
    /\ sizeArgs = NoneVal /\ scaleSize = NoneVal
    /\ example = NoneVal /\ converted = NoneVal
    /\ doc = NoneVal /\ elem = 0 /\ ctm = <<>> /\ saveStack = <<>>
    /\ saveCount = 0 /\ output = NoneVal

ConstructTextProperty ==
    /\ phase = "fields"
    /\ textProperty' = TextProperty(fields)
    /\ phase' = "constructed"
    /\ UNCHANGED fields
    /\ UNCHANGED <<fontVars, normVars, sizeVars, v4Vars, renderVars>>

SchemaNext == ConstructTextProperty

SchemaSpec == SchemaInit /\ [][SchemaNext]_vars

\* C6 (line-map default): a constructed TextProperty has a lineMap that is
\* not None; when none was given it is the single item with value "line" and
\* type "line" over [0, n - 1], n the length of the stored text.
C6_LineMapDefault ==
    (phase = "constructed" /\ IsReturned(textProperty)) =>
        LET self == textProperty.value
        IN  /\ self.lineMap # NoneVal
            /\ fields.lineMap = NoneVal =>
                 /\ Len(self.lineMap.items) = 1
                 /\ self.lineMap.items[1].value = "line"
                 /\ self.lineMap.items[1].type = "line"
                 /\ self.lineMap.items[1].startIndex = 0
                 /\ self.lineMap.items[1].endIndex = Len(self.text) - 1
            /\ fields.lineMap # NoneVal => self.lineMap = fields.lineMap

\* A text that decoding shortens, constructed without a lineMap: the item
\* ends at the last character of the decoded text.
C6_Witness ==
    /\ phase = "constructed"
    /\ IsReturned(textProperty)
    /\ fields.lineMap = NoneVal
    /\ fields.text = <<"a", "&", "a", "m", "p", ";", "&", "l", "t">>
    /\ textProperty.value.text = <<"a", "&", "<">>
    /\ textProperty.value.lineMap.items[1].endIndex = 2

(***************************************************************************)
(* renderer.py: _render_to_surface. The canvas is its current transform    *)
(* (the operations applied to it, oldest first) and its stack of saved     *)
(* transforms.                                                             *)
(***************************************************************************)
Op(kind, args) == [op |-> kind, args |-> args]

\* canvas.scale(scale[0], scale[1]) on the new canvas of the surface.
ScaledCanvas(scale) == <<Op("scale", scale)>>

\* canvas.translate(left, top), and canvas.rotate(angle, width / 2.0,
\* height / 2.0) if angle != 0.0.
ElementTransform(e) ==
    <<Op("translate", <<Frac(e.left, 1), Frac(e.top, 1)>>)>>
    \o (IF e.angle # 0
        THEN <<Op("rotate", <<Frac(e.angle, 1), Frac(e.width, 2), Frac(e.height, 2)>>)>>
        ELSE <<>>)

\* What a drawing step may leave behind on the canvas: nothing, or a save of
\* its own that it did not restore and a transform applied after it.
DrawLeftovers == {<<>>, <<Op("translate", <<One, One>>)>>}

AfterDraw(canvas, left) ==
    IF left = <<>> THEN canvas
    ELSE [ctm |-> canvas.ctm \o left, saveStack |-> Append(canvas.saveStack, canvas.ctm)]

\* skia.AutoCanvasRestore(canvas): canvas.save() on entry; the depth before
\* it is what the exit restores to.
AutoCanvasRestoreEnter(canvas) ==
    [ctm |-> canvas.ctm, saveStack |-> Append(canvas.saveStack, canvas.ctm)]

\* A canvas.restore() that is skipped when the body raised.
RestoreUnlessRaised(canvas, count, raised) ==
    IF raised THEN canvas
    ELSE [ctm |-> canvas.saveStack[count + 1],
          saveStack |-> SubSeq(canvas.saveStack, 1, count)]

\* The exit of "with skia.AutoCanvasRestore(canvas)": restoreToCount(count),
\* whether the body returned or raised.
AutoCanvasRestoreExit(canvas, count, raised) ==
    [ctm |-> canvas.saveStack[count + 1],
     saveStack |-> SubSeq(canvas.saveStack, 1, count)]

Canvas == [ctm |-> ctm, saveStack |-> saveStack]

\* The most elements of a rendered example.
MaxDocElements == 2

DocElements ==
    [left : {1}, top : {2}, width : {3}, height : {1}, angle : {0, 90},
     type : {"TextElement", "ImageElement"}]

Docs ==
    [canvas_width : {Frac(3, 1)}, canvas_height : {Frac(1, 2), Frac(0, 1)},
     elements : SeqsUpTo(DocElements, MaxDocElements),
     max_size : {IntVal(2)}, render_text : BOOLEAN]

RenderInit ==
    /\ phase = "render"
    /\ doc \in Docs
    /\ elem = 0 /\ ctm = <<>> /\ saveStack = <<>> /\ saveCount = 0
    /\ output = NoneVal
    /\ _fonts = NoneVal /\ loadResult = NoneVal
    /\ lookupArgs = NoneVal /\ lookupResult = NoneVal
    /\ name = NoneVal /\ once = NoneVal /\ twice = NoneVal
    /\ sizeArgs = NoneVal /\ scaleSize = NoneVal
    /\ example = NoneVal /\ converted = NoneVal
    /\ fields = NoneVal /\ textProperty = NoneVal

otherVars == <<fontVars, normVars, sizeVars, v4Vars, schemaVars>>

\* _get_scale_size, skia.Surface, canvas.scale and canvas.clear; an exception
\* of _get_scale_size leaves the call.
BeginRender ==
    /\ phase = "render"
    /\ LET r == _get_scale_size(doc.canvas_width, doc.canvas_height, doc.max_size)
       IN  IF IsRaised(r)
           THEN /\ output' = r
                /\ phase' = "raised"
                /\ UNCHANGED ctm
           ELSE /\ ctm' = ScaledCanvas(r.value.scale)
                /\ phase' = "loop"
                /\ UNCHANGED output
    /\ UNCHANGED <<doc, elem, saveStack, saveCount, otherVars>>

\* for i in range(example["length"]): with skia.AutoCanvasRestore(canvas):
EnterElement ==
    /\ phase = "loop"
    /\ elem < Len(doc.elements)
    /\ saveCount' = Len(saveStack)
    /\ saveStack' = AutoCanvasRestoreEnter(Canvas).saveStack
    /\ phase' = "translate"
    /\ UNCHANGED <<doc, elem, ctm, output, otherVars>>

\* canvas.translate and, for an angle that is not 0, canvas.rotate
Transform ==
    /\ phase = "translate"
    /\ ctm' = ctm \o ElementTransform(doc.elements[elem + 1])
    /\ phase' = "draw"
    /\ UNCHANGED <<doc, elem, saveStack, saveCount, output, otherVars>>

IsTextBranch == doc.elements[elem + 1].type = "TextElement" /\ doc.render_text

\* TextElement(...) and text_utils.render_text(canvas, font_manager, element)
DrawText ==
    /\ phase = "draw"
    /\ IsTextBranch
    /\ \E left \in DrawLeftovers :
         /\ ctm' = AfterDraw(Canvas, left).ctm
         /\ saveStack' = AfterDraw(Canvas, left).saveStack
    /\ phase' = "exit"
    /\ UNCHANGED <<doc, elem, saveCount, output, otherVars>>

\* convert_pil_image_to_skia_image and canvas.drawImageRect
DrawImage ==
    /\ phase = "draw"
    /\ ~IsTextBranch
    /\ phase' = "exit"
    /\ UNCHANGED <<doc, elem, ctm, saveStack, saveCount, output, otherVars>>

\* The drawing step of either branch raises, anywhere inside it.
DrawRaises ==
    /\ phase = "draw"
    /\ \E left \in DrawLeftovers :
         /\ ctm' = AfterDraw(Canvas, left).ctm
         /\ saveStack' = AfterDraw(Canvas, left).saveStack
    /\ phase' = "unwind"
    /\ UNCHANGED <<doc, elem, saveCount, output, otherVars>>

\* The with block is left normally: the next element follows.
ExitElement ==
    /\ phase = "exit"
    /\ ctm' = AutoCanvasRestoreExit(Canvas, saveCount, FALSE).ctm
    /\ saveStack' = AutoCanvasRestoreExit(Canvas, saveCount, FALSE).saveStack
    /\ elem' = elem + 1
    /\ phase' = "loop"
    /\ UNCHANGED <<doc, saveCount, output, otherVars>>

\* The with block is left by the exception, which then leaves the call.
UnwindElement ==
    /\ phase = "unwind"
    /\ ctm' = AutoCanvasRestoreExit(Canvas, saveCount, TRUE).ctm
    /\ saveStack' = AutoCanvasRestoreExit(Canvas, saveCount, TRUE).saveStack
    /\ output' = Raise("Exception")
    /\ phase' = "raised"
    /\ UNCHANGED <<doc, elem, saveCount, otherVars>>

\* return image_utils.encode_surface(surface, "jpeg")
Encode ==
    /\ phase = "loop"
    /\ elem = Len(doc.elements)
    /\ output' = Return("jpeg")
    /\ phase' = "returned"
    /\ UNCHANGED <<doc, elem, ctm, saveStack, saveCount, otherVars>>

RenderNext ==
    \/ BeginRender \/ EnterElement \/ Transform \/ DrawText \/ DrawImage
    \/ DrawRaises \/ ExitElement \/ UnwindElement \/ Encode

RenderSpec == RenderInit /\ [][RenderNext]_vars

\* The transform of the canvas fit scale alone.
FitScaleTransform ==
    ScaledCanvas(_get_scale_size(doc.canvas_width, doc.canvas_height,
                                 doc.max_size).value.scale)

\* C9 (scoped transform discipline): just before the translate of every
\* element the transform is the canvas fit scale alone, with nothing saved
\* but the element's own scope; when the call was left by an exception (of
\* an element's drawing step, or of _get_scale_size before there is a
\* canvas) it has returned no bytes, and the save stack and the transform
\* are back to what they were before that element; bytes are returned only
\* by the final encoding.
C9_ScopedTransform ==
    /\ phase = "translate" =>
         /\ ctm = FitScaleTransform
         /\ saveStack = <<FitScaleTransform>>
    /\ phase = "raised" =>
         /\ IsRaised(output)
         /\ Len(saveStack) = saveCount
         /\ ctm # <<>> => ctm = FitScaleTransform
    /\ IsReturned(output) => phase = "returned"

\* The second element is about to be translated after a rotated first
\* element was drawn.
C9_Witness ==
    /\ phase = "translate"
    /\ elem = 1
    /\ doc.elements[1].angle # 0
    /\ ctm = FitScaleTransform

\* The drawing step of the second element raised, leaving a save and a
\* transform of its own, and the call was left with the canvas unwound.
C9_WitnessRaised ==
    /\ phase = "raised"
    /\ elem = 1
    /\ ctm = FitScaleTransform
    /\ saveStack = <<>>
    /\ IsRaised(output)

====
